---- MODULE Spec2Model ----
(***************************************************************************)
(* geoarrow: nested-offset geometry arrays over shared arrow2 buffers.     *)
(*                                                                         *)
(* Two array kinds are modelled from their sources:                        *)
(*   MultiPointArray   (src/src/multipoint/array.rs): x, y, geom_offsets,  *)
(*                     validity; slice works in place (&mut self).         *)
(*   MultiPolygonArray (src/geopolars/geopolars-arrow/src/multipolygon/    *)
(*                     array.rs): x, y, geom_offsets, polygon_offsets,     *)
(*                     ring_offsets, validity; slice returns a new array.  *)
(*                                                                         *)
(* An arrow2 Buffer / OffsetsBuffer / Bitmap is a window (off, len) over a *)
(* reference-counted allocation (data): slicing moves the window and never *)
(* copies.  Indices are 0-based as in the source; TLA+ sequences are       *)
(* 1-based, so cell i of a window is data[off + i + 1].                     *)
(***************************************************************************)
EXTENDS Integers, Sequences, FiniteSets, TLC

\* ------------------------------------------------------------------ bounds
\* Longest coordinate buffer, and largest offset value, an input may hold.
MaxCoords == 2
\* Most geometries an input array may hold.
MaxGeoms == 2
\* Most slice calls made on one array.
MaxSlices == 2

VARIABLES
    pc,     \* "new" | "ready" | "error" (try_new returned Err) | "panicked";
            \* "builder" while a mutable builder is being filled
    build,  \* "debug" (overflow checks on) | "release" (usize arithmetic wraps)
    arr,    \* the array the caller holds
    op,     \* the last call: its name, arguments and outcome
    trail   \* one record per successful slice: the array before it, offset,
            \* length; while a builder is filled, the values pushed so far

vars == <<pc, build, arr, op, trail>>

\* ---------------------------------------------------------------- outcomes
\* A call returns a value, panics, or reads outside an allocation (undefined
\* behaviour: the build decides what the read yields).
Panic == [tag |-> "panic"]
Ub == [tag |-> "ub"]
Val(v) == [tag |-> "ok", val |-> v]
\* usize 0 - 1 with overflow checks off: 2^64 - 1, larger than every number of
\* the model; it is only ever compared, through UsizeLe and UsizeLt.
Wrapped == [tag |-> "wrapped"]

None == [tag |-> "none"]
Some(v) == [tag |-> "some", val |-> v]

NoArray == [kind |-> "none"]

Min(S) == CHOOSE m \in S : \A k \in S : m <= k

\* n <= u and n < u for a usize outcome u that is a value or Wrapped.
UsizeLe(n, u) == u.tag = "wrapped" \/ (u.tag = "ok" /\ n <= u.val)
UsizeLt(n, u) == u.tag = "wrapped" \/ (u.tag = "ok" /\ n < u.val)

\* usize n - 1: panics on underflow in a debug build, wraps in a release build.
UsizeSubOne(n) ==
    IF n >= 1 THEN Val(n - 1)
    ELSE IF build = "debug" THEN Panic ELSE Wrapped

\* ------------------------------------------------------------ arrow2 Buffer
\* Buffer::from(vec): the whole allocation.
Buf(s) == [data |-> s, off |-> 0, len |-> Len(s)]

\* Buffer::slice_unchecked / OffsetsBuffer::slice_unchecked /
\* Bitmap::slice_unchecked: move the window, keep the allocation.
BufSliceUnchecked(b, offset, length) ==
    [data |-> b.data, off |-> b.off + offset, len |-> length]

\* buffer[i]: the slice index is bounds-checked against the window's length;
\* a cell of the window that lies outside the allocation is an undefined read.
BufGet(b, i) ==
    IF i >= b.len THEN Panic
    ELSE IF b.off + i + 1 <= Len(b.data) THEN Val(b.data[b.off + i + 1])
    ELSE Ub

\* ------------------------------------------------------------ arrow2 Bitmap
NoValidity == [present |-> FALSE]
Bitmap(bits) == [present |-> TRUE, data |-> bits, off |-> 0, len |-> Len(bits)]

BitmapSliceUnchecked(v, offset, length) ==
    [present |-> TRUE, data |-> v.data, off |-> v.off + offset, len |-> length]

\* Bitmap::get_bit(i)
GetBit(v, i) == v.data[v.off + i + 1]

\* Bitmap::unset_bits
UnsetBits(v) == Cardinality({i \in 0..(v.len - 1) : ~GetBit(v, i)})

\* The bits a mask shows, or <<>> tagged absent.
ValidityView(v) ==
    IF v.present THEN Some([i \in 1..v.len |-> GetBit(v, i - 1)]) ELSE None

\* ------------------------------------------------------ arrow2 OffsetsBuffer
\* OffsetsBuffer::len_proxy (arrow2 0.17) and OffsetsBuffer::len (arrow2 0.15):
\* the number of offsets minus one.
OffsetsLen(ob) == UsizeSubOne(ob.len)

\* OffsetsBuffer::start_end(index): assert!(index < len), then two unchecked reads.
StartEnd(ob, index) ==
    LET n == OffsetsLen(ob)
        cell(j) == ob.data[ob.off + j + 1]
    IN  IF n.tag = "panic" THEN Panic
        ELSE IF ~UsizeLt(index, n) THEN Panic
        ELSE IF ob.off + index + 2 > Len(ob.data) THEN Ub
        ELSE [tag |-> "ok", s |-> cell(index), e |-> cell(index + 1)]

\* The loop `for i in start..end` collecting one value per index: outs[k] is
\* the outcome for index start + k - 1.  The first index that does not yield a
\* value ends the walk with its outcome.  A reversed range panics
\* (Vec::with_capacity(end - start) underflows or overflows its capacity).
CollectRange(s, e, outs) ==
    IF s > e THEN Panic
    ELSE LET n == e - s
             bad == {k \in 1..n : outs[k].tag # "ok"}
         IN  IF bad = {} THEN Val([k \in 1..n |-> outs[k].val])
             ELSE outs[Min(bad)]

\* The coordinate (x[i], y[i]).
Coord(x, y, i) ==
    LET cx == BufGet(x, i)
        cy == BufGet(y, i)
    IN  IF cx.tag # "ok" THEN cx
        ELSE IF cy.tag # "ok" THEN cy
        ELSE Val(<<cx.val, cy.val>>)

\* ================================================================ MultiPoint
\* src/src/multipoint/array.rs

\* Option<usize> argument of check.
NoLen == [some |-> FALSE]
SomeLen(n) == [some |-> TRUE, v |-> n]
ValidityLen(validity) ==
    IF validity.present THEN SomeLen(validity.len) ELSE NoLen

ErrValidity == "validity mask length must match the number of values"
ErrXY == "x and y arrays must have the same length"

\* Mutant of MPCheck: the mask length is compared with the number of offsets
\* instead of the number of geometries.
MPCheckOffsetsCount(x, y, validity_len, geom_offsets) ==
    IF validity_len.some /\ validity_len.v # geom_offsets.len
    THEN [tag |-> "err", msg |-> ErrValidity]
    ELSE IF x.len # y.len
    THEN [tag |-> "err", msg |-> ErrXY]
    ELSE [tag |-> "ok"]

\* check(x, y, validity_len, geom_offsets): the mask length against
\* geom_offsets.len_proxy() first, then x.len() against y.len().
MPCheck(x, y, validity_len, geom_offsets) ==
    IF validity_len.some /\ Val(validity_len.v) # OffsetsLen(geom_offsets)
    THEN [tag |-> "err", msg |-> ErrValidity]
    ELSE IF x.len # y.len
    THEN [tag |-> "err", msg |-> ErrXY]
    ELSE [tag |-> "ok"]

MultiPointArray(x, y, geom_offsets, validity) ==
    [kind |-> "MultiPoint", x |-> x, y |-> y,
     geom_offsets |-> geom_offsets, validity |-> validity]

\* MultiPointArray::try_new
MPTryNew(x, y, geom_offsets, validity) ==
    LET c == MPCheck(x, y, ValidityLen(validity), geom_offsets)
    IN  IF c.tag = "ok"
        THEN Val(MultiPointArray(x, y, geom_offsets, validity))
        ELSE c

\* MultiPointArray::new: check(..).unwrap(), then the struct.
MPNew(x, y, geom_offsets, validity) ==
    LET c == MPCheck(x, y, ValidityLen(validity), geom_offsets)
    IN  IF c.tag = "ok"
        THEN Val(MultiPointArray(x, y, geom_offsets, validity))
        ELSE Panic

\* MultiPointArray::len
MPLen(a) == OffsetsLen(a.geom_offsets)

\* crate::slice::slice_validity_unchecked: window the mask, and drop it when
\* the window has no unset bit.
SliceValidityUnchecked(validity, offset, length) ==
    IF ~validity.present THEN NoValidity
    ELSE LET w == BitmapSliceUnchecked(validity, offset, length)
         IN  IF UnsetBits(w) = 0 THEN NoValidity ELSE w

\* MultiPointArray::slice_unchecked (in place)
MPSliceUnchecked(a, offset, length) ==
    [a EXCEPT !.validity = SliceValidityUnchecked(@, offset, length),
              !.geom_offsets = BufSliceUnchecked(@, offset, length + 1)]

\* MultiPointArray::slice: assert!(offset + length <= self.len()), then
\* slice_unchecked.  self: the receiver after the call.
MPSlice(a, offset, length) ==
    LET n == MPLen(a)
    IN  IF n.tag = "panic" \/ ~UsizeLe(offset + length, n)
        THEN [tag |-> "panic", self |-> a]
        ELSE [tag |-> "ok", self |-> MPSliceUnchecked(a, offset, length)]

\* GeometryArrayTrait::is_null: reads bit i only if a mask exists.
IsNull(a, i) == a.validity.present /\ ~GetBit(a.validity, i)

\* MultiPointArray::value(i) converted to geo::MultiPoint: the coordinates of
\* the half-open range [start, end) of geom_offsets at geom_index i.
MPValueAsGeo(a, i) ==
    LET se == StartEnd(a.geom_offsets, i)
    IN  IF se.tag # "ok" THEN se
        ELSE CollectRange(se.s, se.e,
                          [k \in 1..(se.e - se.s) |-> Coord(a.x, a.y, se.s + k - 1)])

\* GeometryArrayTrait::get_as_geo: None for a null slot, else the value.
MPGetAsGeo(a, i) ==
    IF IsNull(a, i) THEN None
    ELSE LET g == MPValueAsGeo(a, i)
         IN  IF g.tag = "ok" THEN Some(g.val) ELSE g

\* ============================================================== MultiPolygon
\* src/geopolars/geopolars-arrow/src/multipolygon/array.rs

\* Mutant of MPolyCheck: the x / y length comparison is left out.
MPolyCheckNoXY(x, y, validity_len, geom_offsets) ==
    IF validity_len.some /\ Val(validity_len.v) # OffsetsLen(geom_offsets)
    THEN [tag |-> "err", msg |-> ErrValidity]
    ELSE [tag |-> "ok"]

\* check(x, y, validity_len, geom_offsets): the mask length against
\* geom_offsets.len() first, then x.len() against y.len().
MPolyCheck(x, y, validity_len, geom_offsets) ==
    IF validity_len.some /\ Val(validity_len.v) # OffsetsLen(geom_offsets)
    THEN [tag |-> "err", msg |-> ErrValidity]
    ELSE IF x.len # y.len
    THEN [tag |-> "err", msg |-> ErrXY]
    ELSE [tag |-> "ok"]

\* Mutant of MultiPolygonArray: the x and y buffers change places.
MultiPolygonArraySwapXY(x, y, geom_offsets, polygon_offsets, ring_offsets, validity) ==
    [kind |-> "MultiPolygon", x |-> y, y |-> x,
     geom_offsets |-> geom_offsets, polygon_offsets |-> polygon_offsets,
     ring_offsets |-> ring_offsets, validity |-> validity]

MultiPolygonArray(x, y, geom_offsets, polygon_offsets, ring_offsets, validity) ==
    [kind |-> "MultiPolygon", x |-> x, y |-> y,
     geom_offsets |-> geom_offsets, polygon_offsets |-> polygon_offsets,
     ring_offsets |-> ring_offsets, validity |-> validity]

\* MultiPolygonArray::try_new
MPolyTryNew(x, y, geom_offsets, polygon_offsets, ring_offsets, validity) ==
    LET c == MPolyCheck(x, y, ValidityLen(validity), geom_offsets)
    IN  IF c.tag = "ok"
        THEN Val(MultiPolygonArray(x, y, geom_offsets, polygon_offsets,
                                   ring_offsets, validity))
        ELSE c

\* MultiPolygonArray::new: check(..).unwrap(), then the struct.
MPolyNew(x, y, geom_offsets, polygon_offsets, ring_offsets, validity) ==
    LET c == MPolyCheck(x, y, ValidityLen(validity), geom_offsets)
    IN  IF c.tag = "ok"
        THEN Val(MultiPolygonArray(x, y, geom_offsets, polygon_offsets,
                                   ring_offsets, validity))
        ELSE Panic

\* MultiPolygonArray::len
MPolyLen(a) == OffsetsLen(a.geom_offsets)

\* Mutant of MPolySliceUnchecked: the windowed mask is kept even when it has
\* no unset bit.
MPolySliceUncheckedKeepMask(a, offset, length) ==
    [kind |-> "MultiPolygon",
     x |-> BufSliceUnchecked(a.x, offset, length),
     y |-> BufSliceUnchecked(a.y, offset, length),
     geom_offsets |-> BufSliceUnchecked(a.geom_offsets, offset, length),
     polygon_offsets |-> BufSliceUnchecked(a.polygon_offsets, offset, length),
     ring_offsets |-> BufSliceUnchecked(a.ring_offsets, offset, length),
     validity |-> IF a.validity.present
                  THEN BitmapSliceUnchecked(a.validity, offset, length)
                  ELSE NoValidity]

\* MultiPolygonArray::slice_unchecked: a new array; every buffer, the
\* coordinates and the inner offset levels included, is windowed by
\* (offset, length), and the mask is kept only if its window has an unset bit.
MPolySliceUnchecked(a, offset, length) ==
    LET validity ==
            IF ~a.validity.present THEN NoValidity
            ELSE LET bitmap == BitmapSliceUnchecked(a.validity, offset, length)
                 IN  IF UnsetBits(bitmap) > 0 THEN bitmap ELSE NoValidity
    IN  MultiPolygonArray(
            BufSliceUnchecked(a.x, offset, length),
            BufSliceUnchecked(a.y, offset, length),
            BufSliceUnchecked(a.geom_offsets, offset, length),
            BufSliceUnchecked(a.polygon_offsets, offset, length),
            BufSliceUnchecked(a.ring_offsets, offset, length),
            validity)

\* Mutant of MPolySlice: the bound is tested with < instead of <=.
MPolySliceStrict(a, offset, length) ==
    LET n == MPolyLen(a)
    IN  IF n.tag = "panic" \/ ~UsizeLt(offset + length, n)
        THEN [tag |-> "panic", self |-> a]
        ELSE [tag |-> "ok", self |-> a,
              val |-> MPolySliceUnchecked(a, offset, length)]

\* MultiPolygonArray::slice: assert!(offset + length <= self.len()), then
\* slice_unchecked.  self: the receiver after the call; val: the array returned.
MPolySlice(a, offset, length) ==
    LET n == MPolyLen(a)
    IN  IF n.tag = "panic" \/ ~UsizeLe(offset + length, n)
        THEN [tag |-> "panic", self |-> a]
        ELSE [tag |-> "ok", self |-> a,
              val |-> MPolySliceUnchecked(a, offset, length)]

\* One ring: the coordinates of [start, end) of ring_offsets at ring_idx.
RingAsGeo(a, ring_idx) ==
    LET se == StartEnd(a.ring_offsets, ring_idx)
    IN  IF se.tag # "ok" THEN se
        ELSE CollectRange(se.s, se.e,
                          [k \in 1..(se.e - se.s) |-> Coord(a.x, a.y, se.s + k - 1)])

\* One polygon: the rings of [start, end) of polygon_offsets at polygon_idx.
PolygonAsGeo(a, polygon_idx) ==
    LET se == StartEnd(a.polygon_offsets, polygon_idx)
    IN  IF se.tag # "ok" THEN se
        ELSE CollectRange(se.s, se.e,
                          [k \in 1..(se.e - se.s) |-> RingAsGeo(a, se.s + k - 1)])

\* MultiPolygonArray::value_as_geo: the polygons of [start, end) of
\* geom_offsets at geom_index i.
MPolyValueAsGeo(a, i) ==
    LET se == StartEnd(a.geom_offsets, i)
    IN  IF se.tag # "ok" THEN se
        ELSE CollectRange(se.s, se.e,
                          [k \in 1..(se.e - se.s) |-> PolygonAsGeo(a, se.s + k - 1)])

\* MultiPolygonArray::get: None for a null slot, else the scalar view (the
\* array's buffers and the index; nothing is read).
MPolyGet(a, i) ==
    IF IsNull(a, i) THEN None ELSE Some(i)

\* Mutant of MPolyGetAsGeo: the validity bitmap is not consulted.
MPolyGetAsGeoNoNull(a, i) ==
    LET g == MPolyValueAsGeo(a, i)
    IN  IF g.tag = "ok" THEN Some(g.val) ELSE g

\* MultiPolygonArray::get_as_geo
MPolyGetAsGeo(a, i) ==
    IF IsNull(a, i) THEN None
    ELSE LET g == MPolyValueAsGeo(a, i)
         IN  IF g.tag = "ok" THEN Some(g.val) ELSE g

\* ------------------------------------------------------------- either kind
ArrLen(a) == IF a.kind = "MultiPoint" THEN MPLen(a) ELSE MPolyLen(a)
ValueAsGeo(a, i) ==
    IF a.kind = "MultiPoint" THEN MPValueAsGeo(a, i) ELSE MPolyValueAsGeo(a, i)
GetAsGeo(a, i) ==
    IF a.kind = "MultiPoint" THEN MPGetAsGeo(a, i) ELSE MPolyGetAsGeo(a, i)

\* ================================================================== inputs
\* Coordinate buffers of k cells; every cell holds a different number, so a
\* read of the wrong cell shows.
CoordsX(k) == [i \in 1..k |-> i]
CoordsY(k) == [i \in 1..k |-> 0 - i]

\* OffsetsBuffer<i64> holds at least one offset, none negative, in
\* non-decreasing order (the type's own invariant).
MonoSeqs(n, hi) ==
    {s \in [1..n -> 0..hi] : \A k \in 1..(n - 1) : s[k] <= s[k + 1]}
OffsetInputs == UNION {MonoSeqs(n, MaxCoords) : n \in 1..(MaxGeoms + 1)}

\* Option<Bitmap>: no mask, or any mask of up to MaxGeoms bits.
ValidityInputs ==
    {NoValidity} \cup
    {Bitmap(b) : b \in UNION {[1..n -> BOOLEAN] : n \in 0..MaxGeoms}}

\* Offset levels of a MultiPolygonArray as a builder leaves them: each level
\* starts at 0 and has one more entry than the last offset of the level above;
\* the last ring offset is the length of x.
Last(s) == s[Len(s)]
MPolyShapes ==
    {sh \in [g : {s \in OffsetInputs : s[1] = 0},
             p : {s \in OffsetInputs : s[1] = 0},
             r : {s \in OffsetInputs : s[1] = 0}] :
        /\ Len(sh.p) = Last(sh.g) + 1
        /\ Len(sh.r) = Last(sh.p) + 1}

\* WildGeos: what a read outside an allocation may yield when it does not trap.
WildGeos == {<<>>, <<<<>>>>}

\* ============================================================ state machine
Init ==
    /\ pc = "new"
    /\ build \in {"debug", "release"}
    /\ arr = NoArray
    /\ op = [name |-> "none"]
    /\ trail = <<>>

\* MultiPointArray::try_new(x, y, geom_offsets, validity)
TryNewMultiPoint ==
    \E lx \in 0..MaxCoords, ly \in 0..MaxCoords,
       offs \in OffsetInputs, validity \in ValidityInputs :
        LET r == MPTryNew(Buf(CoordsX(lx)), Buf(CoordsY(ly)), Buf(offs), validity)
        IN  /\ pc = "new"
            /\ op' = [name |-> "try_new", kind |-> "MultiPoint",
                      x_len |-> lx, y_len |-> ly, geom_offsets |-> offs,
                      validity |-> validity, result |-> r.tag,
                      error |-> IF r.tag = "err" THEN Some(r.msg) ELSE None]
            /\ arr' = IF r.tag = "ok" THEN r.val ELSE NoArray
            /\ pc' = IF r.tag = "ok" THEN "ready" ELSE "error"
            /\ UNCHANGED <<build, trail>>

\* MultiPolygonArray::try_new(x, y, geom_offsets, polygon_offsets,
\* ring_offsets, validity)
TryNewMultiPolygon ==
    \E sh \in MPolyShapes, ly \in 0..MaxCoords, validity \in ValidityInputs :
        LET lx == Last(sh.r)
            r == MPolyTryNew(Buf(CoordsX(lx)), Buf(CoordsY(ly)),
                             Buf(sh.g), Buf(sh.p), Buf(sh.r), validity)
        IN  /\ pc = "new"
            /\ op' = [name |-> "try_new", kind |-> "MultiPolygon",
                      x_len |-> lx, y_len |-> ly, geom_offsets |-> sh.g,
                      validity |-> validity, result |-> r.tag,
                      error |-> IF r.tag = "err" THEN Some(r.msg) ELSE None]
            /\ arr' = IF r.tag = "ok" THEN r.val ELSE NoArray
            /\ pc' = IF r.tag = "ok" THEN "ready" ELSE "error"
            /\ UNCHANGED <<build, trail>>

\* arr.slice(offset, length) on a MultiPointArray: in place.
SliceMultiPoint ==
    \E offset \in 0..MaxGeoms, length \in 0..MaxGeoms :
        LET r == MPSlice(arr, offset, length)
        IN  /\ pc = "ready"
            /\ arr.kind = "MultiPoint"
            /\ Len(trail) < MaxSlices
            /\ op' = [name |-> "slice", offset |-> offset, length |-> length,
                      before |-> arr, receiver |-> r.self, result |-> r.tag]
            /\ arr' = r.self
            /\ trail' = IF r.tag = "ok"
                        THEN Append(trail, [before |-> arr, offset |-> offset,
                                            length |-> length])
                        ELSE trail
            /\ pc' = IF r.tag = "ok" THEN "ready" ELSE "panicked"
            /\ UNCHANGED build

\* arr = arr.slice(offset, length) on a MultiPolygonArray: the caller keeps
\* the returned array; a panic leaves it holding the receiver.
SliceMultiPolygon ==
    \E offset \in 0..MaxGeoms, length \in 0..MaxGeoms :
        LET r == MPolySlice(arr, offset, length)
        IN  /\ pc = "ready"
            /\ arr.kind = "MultiPolygon"
            /\ Len(trail) < MaxSlices
            /\ op' = [name |-> "slice", offset |-> offset, length |-> length,
                      before |-> arr, receiver |-> r.self, result |-> r.tag]
            /\ arr' = IF r.tag = "ok" THEN r.val ELSE r.self
            /\ trail' = IF r.tag = "ok"
                        THEN Append(trail, [before |-> arr, offset |-> offset,
                                            length |-> length])
                        ELSE trail
            /\ pc' = IF r.tag = "ok" THEN "ready" ELSE "panicked"
            /\ UNCHANGED build

\* arr.get_as_geo(i) for an index below len().  A read outside an allocation
\* traps or yields some value.
GetAsGeoCall ==
    \E i \in 0..(MaxGeoms - 1) :
        LET r == GetAsGeo(arr, i)
        IN  /\ pc = "ready"
            /\ UsizeLt(i, ArrLen(arr))
            /\ \E out \in (IF r.tag = "ub"
                           THEN {Panic} \cup {Some(g) : g \in WildGeos}
                           ELSE {r}) :
                 /\ op' = [name |-> "get_as_geo", index |-> i, result |-> out]
                 /\ pc' = IF out.tag = "panic" THEN "panicked" ELSE "ready"
            /\ UNCHANGED <<build, arr, trail>>

Next ==
    \/ TryNewMultiPoint
    \/ TryNewMultiPolygon
    \/ SliceMultiPoint
    \/ SliceMultiPolygon
    \/ GetAsGeoCall

Spec == Init /\ [][Next]_vars

\* ================================================================== claims
SliceOk == op.name = "slice" /\ op.result = "ok"
SlicePanicked == op.name = "slice" /\ op.result = "panic"

\* Two buffers show the same cells, in number and cell for cell.
BufSame(b1, b2) ==
    /\ b1.len = b2.len
    /\ \A i \in 0..(b1.len - 1) : BufGet(b1, i) = BufGet(b2, i)

\* Same len(), same validity presence and bits, same elements.
StructEq(a, b) ==
    /\ ArrLen(a) = ArrLen(b)
    /\ ValidityView(a.validity) = ValidityView(b.validity)
    /\ \A i \in 0..MaxGeoms :
          UsizeLt(i, ArrLen(a)) => GetAsGeo(a, i) = GetAsGeo(b, i)

\* C1: after a successful slice(o, l) the array has len() == l and its
\* element i (value_as_geo and get_as_geo) is element o + i of the array
\* before the slice, for every i in 0..l.
SliceLenAndElements ==
    SliceOk =>
        /\ ArrLen(arr) = Val(op.length)
        /\ \A i \in 0..(op.length - 1) :
              /\ ValueAsGeo(arr, i) = ValueAsGeo(op.before, op.offset + i)
              /\ GetAsGeo(arr, i) = GetAsGeo(op.before, op.offset + i)

\* C1 for MultiPointArray alone.
SliceLenAndElementsMultiPoint ==
    arr.kind = "MultiPoint" => SliceLenAndElements

\* C2: a successful slice(o, l) leaves x, y and every inner offset level as
\* they were, cell for cell and in length, and the outer offsets become the
\* l + 1 offsets o .. o + l of the array before.
SliceFrame ==
    SliceOk =>
        /\ BufSame(arr.x, op.before.x)
        /\ BufSame(arr.y, op.before.y)
        /\ arr.kind = "MultiPolygon" =>
              /\ BufSame(arr.polygon_offsets, op.before.polygon_offsets)
              /\ BufSame(arr.ring_offsets, op.before.ring_offsets)
        /\ arr.geom_offsets.len = op.length + 1
        /\ \A i \in 0..op.length :
              BufGet(arr.geom_offsets, i)
                  = BufGet(op.before.geom_offsets, op.offset + i)

\* C2 for MultiPointArray alone.
SliceFrameMultiPoint ==
    arr.kind = "MultiPoint" => SliceFrame

\* The array a.slice(offset, length) leaves the caller with, when it returns.
Sliced(a, offset, length) ==
    IF a.kind = "MultiPoint"
    THEN MPSlice(a, offset, length).self
    ELSE MPolySlice(a, offset, length).val
SliceReturns(a, offset, length) ==
    IF a.kind = "MultiPoint"
    THEN MPSlice(a, offset, length).tag = "ok"
    ELSE MPolySlice(a, offset, length).tag = "ok"

\* C3: slices compose.  A slice (o2, l2) with o2 + l2 <= l1 made on the
\* result of slice (o1, l1) returns, and what it returns is structurally
\* equal to the one slice (o1 + o2, l2) of the array the first was made on.
SliceComposition ==
    LET n == Len(trail)
    IN  /\ (SlicePanicked /\ n >= 1) =>
               op.offset + op.length > trail[n].length
        /\ (SliceOk /\ n >= 2) =>
               LET first == trail[n - 1]
               IN  /\ SliceReturns(first.before, first.offset + op.offset,
                                   op.length)
                   /\ StructEq(arr, Sliced(first.before,
                                           first.offset + op.offset, op.length))

\* C3 for MultiPointArray alone.
SliceCompositionMultiPoint ==
    arr.kind = "MultiPoint" => SliceComposition

LenIsOffsetsMinusOne ==
    arr.kind # "none" =>
        /\ ArrLen(arr).tag = "ok"
        /\ ArrLen(arr).val = arr.geom_offsets.len - 1
        /\ (op.name = "try_new") => ArrLen(arr).val = Len(op.geom_offsets) - 1
        /\ SliceOk => ArrLen(arr).val = op.length

\* C5 for MultiPointArray alone.
LenIsOffsetsMinusOneMultiPoint ==
    arr.kind = "MultiPoint" => LenIsOffsetsMinusOne

TryNewCalled == op.name = "try_new"

\* C6: try_new with len(x) # len(y) returns an error and constructs no
\* array, whatever the offsets and the validity are.
TryNewRejectsXYMismatch ==
    (TryNewCalled /\ op.x_len # op.y_len) =>
        /\ op.result = "err"
        /\ arr = NoArray
        /\ pc = "error"

\* C6 witness: MultiPolygonArray::try_new was called without a mask and with len(x) # len(y),
\* so the error can only come from the coordinate lengths.
TryNewRejectsXYMismatchWitness ==
    /\ TryNewCalled
    /\ op.kind = "MultiPolygon"
    /\ ~op.validity.present
    /\ op.x_len # op.y_len
    /\ op.result = "err"

\* C7: try_new with a mask returns the mask-length error exactly when the
\* mask length differs from the number of outer offsets minus one, and with
\* len(x) == len(y) it fails in no other case: a mask of the right length is
\* then accepted.
TryNewChecksValidityLen ==
    (TryNewCalled /\ op.validity.present) =>
        LET mismatch == op.validity.len # Len(op.geom_offsets) - 1
        IN  /\ mismatch => op.result = "err"
            /\ op.error = Some(ErrValidity) <=> mismatch
            /\ op.x_len = op.y_len => (op.result = "err" <=> mismatch)
            /\ op.result = "ok" => arr.validity = op.validity

\* C7 witness: a MultiPointArray try_new with equal coordinate lengths and a
\* mask one bit longer than the geometry count returned an error.
TryNewChecksValidityLenWitness ==
    /\ TryNewCalled
    /\ op.kind = "MultiPoint"
    /\ op.validity.present
    /\ op.x_len = op.y_len
    /\ op.validity.len = Len(op.geom_offsets)
    /\ op.error = Some(ErrValidity)

\* An offset level is non-decreasing and none of its offsets exceeds limit.
LevelWithin(ob, limit) ==
    /\ \A i \in 1..(ob.len - 1) : ob.data[ob.off + i] <= ob.data[ob.off + i + 1]
    /\ \A i \in 1..ob.len : ob.data[ob.off + i] <= limit

OffsetInvariants(a) ==
    IF a.kind = "MultiPoint"
    THEN /\ LevelWithin(a.geom_offsets, a.x.len)
         /\ LevelWithin(a.geom_offsets, a.y.len)
    ELSE /\ LevelWithin(a.geom_offsets, a.polygon_offsets.len - 1)
         /\ LevelWithin(a.polygon_offsets, a.ring_offsets.len - 1)
         /\ LevelWithin(a.ring_offsets, a.x.len)
         /\ LevelWithin(a.ring_offsets, a.y.len)

\* C8: every array try_new returns has non-decreasing offset levels, none of
\* whose offsets exceeds the length of the level (or coordinate buffers) it
\* indexes.
TryNewOffsetInvariants ==
    (TryNewCalled /\ op.result = "ok") => OffsetInvariants(arr)

\* Bit i of the mask the array shows is unset.
MaskBitUnset(a, i) ==
    /\ ValidityView(a.validity) # None
    /\ ~ValidityView(a.validity).val[i + 1]

\* C9: for every index i below len(), get(i) and get_as_geo(i) return None
\* exactly when a mask is present and its bit i is unset; without a mask
\* neither is ever None.
NullPreservation ==
    /\ arr.kind # "none" =>
          \A i \in 0..MaxGeoms :
              UsizeLt(i, ArrLen(arr)) =>
                  /\ GetAsGeo(arr, i) = None <=> MaskBitUnset(arr, i)
                  /\ arr.kind = "MultiPolygon" =>
                        (MPolyGet(arr, i) = None <=> MaskBitUnset(arr, i))
    /\ op.name = "get_as_geo" =>
          (op.result = None <=> MaskBitUnset(arr, op.index))

\* C9 witness: get_as_geo returned None for a slot of a sliced
\* MultiPolygonArray.
NullPreservationWitness ==
    /\ op.name = "get_as_geo"
    /\ op.result = None
    /\ arr.kind = "MultiPolygon"
    /\ Len(trail) >= 1

\* C10: after a successful slice(o, l) of an array with a mask, the result
\* has a mask exactly when bits o .. o + l - 1 of the mask before hold an
\* unset bit; a kept mask has l bits and its bit i is bit o + i of the mask
\* before, and a dropped mask means every bit of that window was set.
SliceValidityWindow ==
    (SliceOk /\ op.before.validity.present) =>
        LET old == op.before.validity
            window == {i \in 0..(op.length - 1) : TRUE}
            unset == {i \in window : ~GetBit(old, op.offset + i)}
        IN  /\ arr.validity.present <=> unset # {}
            /\ arr.validity.present =>
                  /\ arr.validity.len = op.length
                  /\ \A i \in window :
                        GetBit(arr.validity, i) = GetBit(old, op.offset + i)
            /\ ~arr.validity.present =>
                  \A i \in window : GetBit(old, op.offset + i)

\* C10 witness: a MultiPolygonArray whose mask has an unset bit was sliced to
\* a non-empty window of set bits, and the mask was dropped.
SliceValidityWindowWitness ==
    /\ SliceOk
    /\ arr.kind = "MultiPolygon"
    /\ op.before.validity.present
    /\ UnsetBits(op.before.validity) > 0
    /\ op.length >= 1
    /\ ~arr.validity.present

\* ================================================================== builder
\* MutableMultiPointArray / MutableMultiPolygonArray: push_geometry, push_null
\* and the freeze into an immutable array (From<Vec<Option<geo::..>>>).

\* Most points of a multipoint handed to the builder.
MaxPoints == 2

\* geo::Coord values the inputs are made of.
CoordPool == {<<1, 0 - 1>>, <<2, 0 - 2>>}

\* geo::MultiPoint: a sequence of coordinates.
MultiPointGeos == UNION {[1..n -> CoordPool] : n \in 0..MaxPoints}

\* geo::LineString rings of a geo::Polygon: empty or closed.
RingGeos == {<<>>, <<<<1, 0 - 1>>>>, <<<<1, 0 - 1>>, <<2, 0 - 2>>, <<1, 0 - 1>>>>}

\* geo::Polygon: the exterior ring followed by the interior rings.
PolygonGeos ==
    {<<r>> : r \in RingGeos} \cup
    {<< <<<<1, 0 - 1>>, <<2, 0 - 2>>, <<1, 0 - 1>>>>, <<<<2, 0 - 2>>>> >>}

\* geo::MultiPolygon: a sequence of polygons.
MultiPolygonGeos == UNION {[1..n -> PolygonGeos] : n \in 0..MaxGeoms}

Optional(S) == {None} \cup {Some(g) : g \in S}

RECURSIVE Flatten(_)
\* The members of the sequences of ss, in order.
Flatten(ss) == IF ss = <<>> THEN <<>> ELSE Head(ss) \o Flatten(Tail(ss))

RECURSIVE RunningTotals(_, _)
\* base + lens[1], base + lens[1] + lens[2], ...
RunningTotals(base, lens) ==
    IF lens = <<>> THEN <<>>
    ELSE <<base + Head(lens)>> \o RunningTotals(base + Head(lens), Tail(lens))

Lens(ss) == [k \in 1..Len(ss) |-> Len(ss[k])]
Xs(coords) == [k \in 1..Len(coords) |-> coords[k][1]]
Ys(coords) == [k \in 1..Len(coords) |-> coords[k][2]]

\* MutableBitmap of the builder: created by the first null push, with every
\* earlier slot set.
NoMask == [present |-> FALSE]
MaskPush(validity, pushed, bit) ==
    IF validity.present
    THEN [present |-> TRUE, bits |-> Append(validity.bits, bit)]
    ELSE IF bit THEN validity
    ELSE [present |-> TRUE, bits |-> [k \in 1..(pushed + 1) |-> k <= pushed]]
MaskFreeze(validity) ==
    IF validity.present THEN Bitmap(validity.bits) ELSE NoValidity

\* MutableMultiPointArray::new
MutableMultiPointArray ==
    [kind |-> "MutableMultiPoint", x |-> <<>>, y |-> <<>>,
     geom_offsets |-> <<0>>, validity |-> NoMask]

\* MutableMultiPolygonArray::new
MutableMultiPolygonArray ==
    [kind |-> "MutableMultiPolygon", x |-> <<>>, y |-> <<>>,
     geom_offsets |-> <<0>>, polygon_offsets |-> <<0>>, ring_offsets |-> <<0>>,
     validity |-> NoMask]

\* push_null: nothing at the finer levels, the previous outer offset again,
\* the slot's bit unset.
PushNull(b) ==
    [b EXCEPT !.geom_offsets = Append(@, Last(@)),
              !.validity = MaskPush(@, Len(b.geom_offsets) - 1, FALSE)]

\* MutableMultiPointArray::push_geometry(Some(g))
MPPushGeometry(b, g) ==
    [b EXCEPT !.x = @ \o Xs(g),
              !.y = @ \o Ys(g),
              !.geom_offsets = Append(@, Last(@) + Len(g)),
              !.validity = MaskPush(@, Len(b.geom_offsets) - 1, TRUE)]

\* MutableMultiPolygonArray::push_geometry(Some(g)): the coordinates of every
\* ring, one ring offset per ring, one polygon offset per polygon, one
\* geometry offset.
MPolyPushGeometry(b, g) ==
    LET rings == Flatten(g)
        coords == Flatten(rings)
    IN  [b EXCEPT !.x = @ \o Xs(coords),
                  !.y = @ \o Ys(coords),
                  !.ring_offsets = @ \o RunningTotals(Last(@), Lens(rings)),
                  !.polygon_offsets = @ \o RunningTotals(Last(@), Lens(g)),
                  !.geom_offsets = Append(@, Last(@) + Len(g)),
                  !.validity = MaskPush(@, Len(b.geom_offsets) - 1, TRUE)]

PushOptional(b, g) ==
    IF g = None THEN PushNull(b)
    ELSE IF b.kind = "MutableMultiPoint" THEN MPPushGeometry(b, g.val)
    ELSE MPolyPushGeometry(b, g.val)

\* From<MutableMultiPointArray> for MultiPointArray /
\* From<MutableMultiPolygonArray> for MultiPolygonArray: new() over the
\* builder's buffers.
Freeze(b) ==
    IF b.kind = "MutableMultiPoint"
    THEN MPNew(Buf(b.x), Buf(b.y), Buf(b.geom_offsets), MaskFreeze(b.validity))
    ELSE MPolyNew(Buf(b.x), Buf(b.y), Buf(b.geom_offsets),
                  Buf(b.polygon_offsets), Buf(b.ring_offsets),
                  MaskFreeze(b.validity))

\* A producer holds an empty builder of one of the two kinds.
BuilderInit ==
    /\ pc = "builder"
    /\ build \in {"debug", "release"}
    /\ arr \in {MutableMultiPointArray, MutableMultiPolygonArray}
    /\ op = [name |-> "none"]
    /\ trail = <<>>

\* builder.push_geometry(g)
PushGeometry ==
    \E g \in (IF arr.kind = "MutableMultiPoint"
              THEN Optional(MultiPointGeos) ELSE Optional(MultiPolygonGeos)) :
        /\ pc = "builder"
        /\ Len(trail) < MaxGeoms
        /\ arr' = PushOptional(arr, g)
        /\ op' = [name |-> "push", value |-> g, before |-> arr]
        /\ trail' = Append(trail, g)
        /\ UNCHANGED <<pc, build>>

\* let array = builder.into()
FreezeBuilder ==
    LET r == Freeze(arr)
    IN  /\ pc = "builder"
        /\ arr' = IF r.tag = "ok" THEN r.val ELSE NoArray
        /\ op' = [name |-> "freeze", result |-> r.tag]
        /\ pc' = IF r.tag = "ok" THEN "ready" ELSE "panicked"
        /\ UNCHANGED <<build, trail>>

BuilderNext ==
    \/ PushGeometry
    \/ FreezeBuilder
    \/ GetAsGeoCall

BuilderSpec == BuilderInit /\ [][BuilderNext]_vars

\* The value the list pushed so far holds at position i (0-based).
Pushed(i) == IF trail[i + 1] = None THEN None ELSE Some(trail[i + 1].val)

\* C11: the array frozen from a builder that was handed the list v has
\* len() == |v| and get_as_geo(i) == v[i] for every i (None for a null entry,
\* the geometry with the same parts, rings and coordinates otherwise); a null
\* push adds no coordinates and repeats the previous outer offset.
BuilderRoundTrip ==
    /\ pc = "ready" =>
          /\ ArrLen(arr) = Val(Len(trail))
          /\ \A i \in 0..(Len(trail) - 1) : GetAsGeo(arr, i) = Pushed(i)
          /\ \A i \in 0..(Len(trail) - 1) :
                trail[i + 1] = None =>
                    BufGet(arr.geom_offsets, i + 1) = BufGet(arr.geom_offsets, i)
    /\ op.name = "get_as_geo" => op.result = Pushed(op.index)
    /\ (op.name = "push" /\ op.value = None) =>
          /\ arr.x = op.before.x
          /\ arr.y = op.before.y
          /\ Last(arr.geom_offsets) = Last(op.before.geom_offsets)
          /\ Len(arr.geom_offsets) = Len(op.before.geom_offsets) + 1

\* C11 witness: get_as_geo returned a two-polygon multipolygon (the second
\* polygon with a hole) from an array built from a list that also holds a
\* null entry.
BuilderRoundTripWitness ==
    /\ op.name = "get_as_geo"
    /\ arr.kind = "MultiPolygon"
    /\ op.result.tag = "some"
    /\ Len(op.result.val) = 2
    /\ Len(op.result.val[2]) = 2
    /\ \E i \in 1..Len(trail) : trail[i] = None

\* ============================================================= process_geom
\* GeozeroGeometry::process_geom: a depth-first walk of the offset levels that
\* calls one method of the processor per event.  walk.events are the calls
\* made so far; walk.status is "run" until the walk ends: "err" (a call
\* returned Err, propagated by `?`), "panic", "ub" (a read outside an
\* allocation) or "ok".

\* Largest call number at which the processor is made to fail.
MaxFailAt == 9

Walk0 == [events |-> <<>>, status |-> "run"]

\* Mutant of Emit: the result of the processor call is dropped instead of
\* being propagated.
EmitIgnoringErr(walk, ev, fail_at) ==
    IF walk.status # "run" THEN walk
    ELSE [events |-> Append(walk.events, ev), status |-> "run"]

\* processor.<event>(..)?  The processor fails on its call number fail_at
\* (never when fail_at = 0).
Emit(walk, ev, fail_at) ==
    IF walk.status # "run" THEN walk
    ELSE [events |-> Append(walk.events, ev),
          status |-> IF Len(walk.events) + 1 = fail_at THEN "err" ELSE "run"]

\* A panic or an undefined read ends the walk.
Abort(walk, outcome) ==
    IF walk.status # "run" THEN walk ELSE [walk EXCEPT !.status = outcome.tag]

RECURSIVE CoordLoop(_, _, _, _, _, _)
\* for coord_idx in start..end { processor.xy(x[coord_idx], y[coord_idx],
\* coord_idx - start)? }
CoordLoop(a, fail_at, walk, coord_idx, start, end) ==
    IF walk.status # "run" \/ coord_idx >= end THEN walk
    ELSE LET c == Coord(a.x, a.y, coord_idx)
             after == IF c.tag # "ok" THEN Abort(walk, c)
                      ELSE Emit(walk, [ev |-> "xy", x |-> c.val[1],
                                       y |-> c.val[2],
                                       idx |-> coord_idx - start], fail_at)
         IN  CoordLoop(a, fail_at, after, coord_idx + 1, start, end)

\* The body of MultiPointArray's loop over geom_idx.
MPGeomBody(a, fail_at, walk, geom_idx) ==
    LET se == StartEnd(a.geom_offsets, geom_idx)
    IN  IF se.tag # "ok" THEN Abort(walk, se)
        ELSE LET w1 == Emit(walk, [ev |-> "multipoint_begin",
                                   size |-> se.e - se.s, idx |-> geom_idx],
                            fail_at)
                 w2 == CoordLoop(a, fail_at, w1, se.s, se.s, se.e)
             IN  Emit(w2, [ev |-> "multipoint_end", idx |-> geom_idx], fail_at)

\* The body of MultiPolygonArray's loop over ring_idx.
RingBody(a, fail_at, walk, ring_idx, start_ring_idx) ==
    LET se == StartEnd(a.ring_offsets, ring_idx)
    IN  IF se.tag # "ok" THEN Abort(walk, se)
        ELSE LET w1 == Emit(walk, [ev |-> "linestring_begin",
                                   size |-> se.e - se.s,
                                   idx |-> ring_idx - start_ring_idx], fail_at)
                 w2 == CoordLoop(a, fail_at, w1, se.s, se.s, se.e)
             IN  Emit(w2, [ev |-> "linestring_end",
                           idx |-> ring_idx - start_ring_idx], fail_at)

RECURSIVE RingLoop(_, _, _, _, _, _)
RingLoop(a, fail_at, walk, ring_idx, start, end) ==
    IF walk.status # "run" \/ ring_idx >= end THEN walk
    ELSE RingLoop(a, fail_at, RingBody(a, fail_at, walk, ring_idx, start),
                  ring_idx + 1, start, end)

\* Mutant of PolygonBody: the rings of the polygon are not walked.
PolygonBodyNoRings(a, fail_at, walk, polygon_idx, start_polygon_idx) ==
    LET se == StartEnd(a.polygon_offsets, polygon_idx)
    IN  IF se.tag # "ok" THEN Abort(walk, se)
        ELSE LET w1 == Emit(walk, [ev |-> "polygon_begin",
                                   size |-> se.e - se.s,
                                   idx |-> polygon_idx - start_polygon_idx],
                            fail_at)
             IN  Emit(w1, [ev |-> "polygon_end",
                           idx |-> polygon_idx - start_polygon_idx], fail_at)

\* The body of MultiPolygonArray's loop over polygon_idx.
PolygonBody(a, fail_at, walk, polygon_idx, start_polygon_idx) ==
    LET se == StartEnd(a.polygon_offsets, polygon_idx)
    IN  IF se.tag # "ok" THEN Abort(walk, se)
        ELSE LET w1 == Emit(walk, [ev |-> "polygon_begin",
                                   size |-> se.e - se.s,
                                   idx |-> polygon_idx - start_polygon_idx],
                            fail_at)
                 w2 == RingLoop(a, fail_at, w1, se.s, se.s, se.e)
             IN  Emit(w2, [ev |-> "polygon_end",
                           idx |-> polygon_idx - start_polygon_idx], fail_at)

RECURSIVE PolygonLoop(_, _, _, _, _, _)
PolygonLoop(a, fail_at, walk, polygon_idx, start, end) ==
    IF walk.status # "run" \/ polygon_idx >= end THEN walk
    ELSE PolygonLoop(a, fail_at,
                     PolygonBody(a, fail_at, walk, polygon_idx, start),
                     polygon_idx + 1, start, end)

\* The body of MultiPolygonArray's loop over geom_idx.
MPolyGeomBody(a, fail_at, walk, geom_idx) ==
    LET se == StartEnd(a.geom_offsets, geom_idx)
    IN  IF se.tag # "ok" THEN Abort(walk, se)
        ELSE LET w1 == Emit(walk, [ev |-> "multipolygon_begin",
                                   size |-> se.e - se.s, idx |-> geom_idx],
                            fail_at)
                 w2 == PolygonLoop(a, fail_at, w1, se.s, se.s, se.e)
             IN  Emit(w2, [ev |-> "multipolygon_end", idx |-> geom_idx],
                      fail_at)

RECURSIVE GeomLoop(_, _, _, _, _)
\* for geom_idx in 0..num_geometries { .. }
GeomLoop(a, fail_at, walk, geom_idx, num_geometries) ==
    IF walk.status # "run" \/ ~UsizeLt(geom_idx, num_geometries) THEN walk
    ELSE GeomLoop(a, fail_at,
                  IF a.kind = "MultiPoint"
                  THEN MPGeomBody(a, fail_at, walk, geom_idx)
                  ELSE MPolyGeomBody(a, fail_at, walk, geom_idx),
                  geom_idx + 1, num_geometries)

\* num_geometries - 1
LastIndex(num_geometries) ==
    IF num_geometries.tag = "ok" THEN UsizeSubOne(num_geometries.val)
    ELSE num_geometries

\* process_geom(&self, processor)
ProcessGeom(a, fail_at) ==
    LET num_geometries == ArrLen(a)
    IN  IF num_geometries.tag = "panic" THEN Abort(Walk0, Panic)
        ELSE LET w1 == Emit(Walk0, [ev |-> "geometrycollection_begin",
                                    size |-> num_geometries, idx |-> 0],
                            fail_at)
                 w2 == GeomLoop(a, fail_at, w1, 0, num_geometries)
                 last == LastIndex(num_geometries)
                 w3 == IF last.tag = "panic" THEN Abort(w2, Panic)
                       ELSE Emit(w2, [ev |-> "geometrycollection_end",
                                      idx |-> last], fail_at)
             IN  IF w3.status = "run" THEN [w3 EXCEPT !.status = "ok"] ELSE w3

\* =============================================================== rstar_tree
\* ZipValidity::new_with_validity(values, validity): when the mask has an
\* unset bit the two iterators are zipped, and must announce the same length
\* (assert_eq! on the size hints); otherwise every value is Some.  The result
\* is the indices whose value is yielded as Some.
ZipValidity(n, validity) ==
    IF validity.present /\ UnsetBits(validity) > 0
    THEN IF n # Val(validity.len) THEN Panic
         ELSE Val(SelectSeq([k \in 1..validity.len |-> k - 1],
                            LAMBDA i : GetBit(validity, i)))
    ELSE IF n.tag = "ok" THEN Val([k \in 1..n.val |-> k - 1])
    ELSE Ub

\* tree.insert(geom) for each scalar of idxs: the envelope of the scalar is
\* computed from its coordinates, read through the offsets.
InsertAll(a, idxs) ==
    LET envs == [k \in 1..Len(idxs) |-> ValueAsGeo(a, idxs[k])]
        bad == {k \in 1..Len(idxs) : envs[k].tag # "ok"}
    IN  IF bad = {} THEN Val(idxs) ELSE envs[Min(bad)]

\* MultiPolygonArray::rstar_tree: self.iter().flatten().for_each(insert).
\* The tree is modelled by the indices of its entries, in insertion order.
MPolyRstarTree(a) ==
    LET n == MPolyLen(a)
    IN  IF n.tag = "panic" THEN Panic
        ELSE LET some == ZipValidity(n, a.validity)
             IN  IF some.tag # "ok" THEN some ELSE InsertAll(a, some.val)

\* MultiPointArray::rstar_tree: self.iter().flatten().for_each(insert)
MPRstarTree(a) ==
    LET n == MPLen(a)
    IN  IF n.tag = "panic" THEN Panic
        ELSE LET some == ZipValidity(n, a.validity)
             IN  IF some.tag # "ok" THEN some ELSE InsertAll(a, some.val)

\* GeometryArray::rstar_tree:
\* (0..self.len()).filter_map(|i| self.get(i)).for_each(insert)
GeometryArrayRstarTree(a) ==
    LET n == ArrLen(a)
    IN  IF n.tag = "panic" THEN Panic
        ELSE IF n.tag # "ok" THEN Ub
        ELSE InsertAll(a, SelectSeq([k \in 1..n.val |-> k - 1],
                                    LAMBDA i : ~IsNull(a, i)))

RstarTree(a, via) ==
    IF via = "variant" THEN GeometryArrayRstarTree(a)
    ELSE IF a.kind = "MultiPoint" THEN MPRstarTree(a)
    ELSE MPolyRstarTree(a)

\* ================================================== columnar export / import
\* arrow2 arrays: PrimitiveArray<f64>, StructArray, ListArray<i64>.
PrimitiveArray(values) == [type |-> "Float64", values |-> values]

\* StructArray::new: the children must have one length.
StructArrayNew(children) ==
    IF \E k \in 1..Len(children) : children[k].values.len # children[1].values.len
    THEN Panic
    ELSE Val([type |-> "Struct", fields |-> children])

\* Array::len of a child array.
ArrowLen(v) ==
    IF v.type = "Struct" THEN v.fields[1].values.len
    ELSE IF v.type \in {"LargeList", "List"} THEN v.offsets.len - 1
    ELSE v.values.len

\* OffsetsBuffer::last: unchecked on a buffer that holds no offset.
OffsetsLast(ob) ==
    IF ob.len = 0 \/ ob.off + ob.len > Len(ob.data) THEN Ub
    ELSE Val(ob.data[ob.off + ob.len])

\* ListArray::new = try_new(..).unwrap(): the last offset may not exceed the
\* length of the values, and a mask must have one bit per list.
ListArrayNew(offsets, values, validity) ==
    LET last == OffsetsLast(offsets)
    IN  IF last.tag # "ok" THEN last
        ELSE IF last.val > ArrowLen(values) THEN Panic
        ELSE IF validity.present /\ validity.len # offsets.len - 1 THEN Panic
        ELSE Val([type |-> "LargeList", offsets |-> offsets,
                  values |-> values, validity |-> validity])

\* The coordinate struct both exports start from.
CoordArray(a) == StructArrayNew(<<PrimitiveArray(a.x), PrimitiveArray(a.y)>>)

\* LineStringArray::into_arrow: list of struct, the mask on the list.
LineStringIntoArrow(a) ==
    LET coord_array == CoordArray(a)
    IN  IF coord_array.tag # "ok" THEN coord_array
        ELSE ListArrayNew(a.geom_offsets, coord_array.val, a.validity)

\* MultiPointArray::into_arrow: through LineStringArray (same layout).
MPIntoArrow(a) == LineStringIntoArrow(a)

\* MultiPolygonArray::into_arrow: rings list over the coordinate struct,
\* polygons list over it, geometry list (with the mask) over that.
MPolyIntoArrow(a) ==
    LET coord_array == CoordArray(a)
    IN  IF coord_array.tag # "ok" THEN coord_array
        ELSE LET inner == ListArrayNew(a.ring_offsets, coord_array.val, NoValidity)
             IN  IF inner.tag # "ok" THEN inner
                 ELSE LET middle == ListArrayNew(a.polygon_offsets, inner.val,
                                                 NoValidity)
                      IN  IF middle.tag # "ok" THEN middle
                          ELSE ListArrayNew(a.geom_offsets, middle.val,
                                            a.validity)

IntoArrow(a) ==
    IF a.kind = "MultiPoint" THEN MPIntoArrow(a) ELSE MPolyIntoArrow(a)

\* coords_array.values()[0] and [1] downcast to PrimitiveArray<f64> and
\* unwrapped: x and y of a coordinate struct, or a panic.
CoordBuffers(coords) ==
    IF coords.type # "Struct" THEN Panic
    ELSE IF Len(coords.fields) < 2 THEN Panic
    ELSE IF coords.fields[1].type # "Float64" \/ coords.fields[2].type # "Float64"
    THEN Panic
    ELSE Val([x |-> coords.fields[1].values, y |-> coords.fields[2].values])

\* TryFrom<ListArray<i64>> for MultiPointArray
MPTryFromList(value) ==
    LET c == CoordBuffers(value.values)
    IN  IF c.tag # "ok" THEN c
        ELSE MPNew(c.val.x, c.val.y, value.offsets, value.validity)

\* TryFrom<ListArray<i64>> for MultiPolygonArray
MPolyTryFromList(value) ==
    LET first_level == value.values
    IN  IF first_level.type # "LargeList" THEN Panic
        ELSE LET second_level == first_level.values
             IN  IF second_level.type # "LargeList" THEN Panic
                 ELSE LET c == CoordBuffers(second_level.values)
                      IN  IF c.tag # "ok" THEN c
                          ELSE MPolyNew(c.val.x, c.val.y, value.offsets,
                                        first_level.offsets,
                                        second_level.offsets, value.validity)

\* TryFrom<Box<dyn Array>>: downcast to ListArray<i64>, unwrap, try_into.
MPTryFrom(value) ==
    IF value.type # "LargeList" THEN Panic ELSE MPTryFromList(value)

MPolyTryFrom(value) ==
    IF value.type # "LargeList" THEN Panic ELSE MPolyTryFromList(value)

\* ============================ arrays in use: traversal, index, export, import
\* Layouts as a builder leaves them: every offset level starts at 0 and ends
\* at the length of the level below.
WellFormedOffsets == {s \in OffsetInputs : s[1] = 0}

\* What an undefined read leaves behind when it does not trap.
Wild == [tag |-> "wild"]
UbOutcomes(r) == IF r.tag = "ub" THEN {Panic, Wild} ELSE {r}

\* MultiPointArray::new(x, y, geom_offsets, validity)
NewMultiPoint ==
    \E offs \in WellFormedOffsets, validity \in ValidityInputs :
        LET lx == Last(offs)
            r == MPNew(Buf(CoordsX(lx)), Buf(CoordsY(lx)), Buf(offs), validity)
        IN  /\ pc = "new"
            /\ op' = [name |-> "new", kind |-> "MultiPoint", result |-> r.tag]
            /\ arr' = IF r.tag = "ok" THEN r.val ELSE NoArray
            /\ pc' = IF r.tag = "ok" THEN "ready" ELSE "panicked"
            /\ UNCHANGED <<build, trail>>

\* MultiPolygonArray::new(x, y, geom_offsets, polygon_offsets, ring_offsets,
\* validity)
NewMultiPolygon ==
    \E sh \in MPolyShapes, validity \in ValidityInputs :
        LET lx == Last(sh.r)
            r == MPolyNew(Buf(CoordsX(lx)), Buf(CoordsY(lx)),
                          Buf(sh.g), Buf(sh.p), Buf(sh.r), validity)
        IN  /\ pc = "new"
            /\ op' = [name |-> "new", kind |-> "MultiPolygon", result |-> r.tag]
            /\ arr' = IF r.tag = "ok" THEN r.val ELSE NoArray
            /\ pc' = IF r.tag = "ok" THEN "ready" ELSE "panicked"
            /\ UNCHANGED <<build, trail>>

\* arr.process_geom(&mut processor), with a processor that records each call
\* and fails on call number fail_at (never, when fail_at = 0).
ProcessGeomCall ==
    \E fail_at \in 0..MaxFailAt :
        LET w == ProcessGeom(arr, fail_at)
        IN  /\ pc = "ready"
            /\ \E status \in (IF w.status = "ub" THEN {"panic", "wild"}
                              ELSE {w.status}) :
                 op' = [name |-> "process_geom", fail_at |-> fail_at,
                        events |-> w.events, status |-> status]
            /\ UNCHANGED <<pc, build, arr, trail>>

\* arr.rstar_tree(), on the array or on the GeometryArray variant holding it.
RstarTreeCall ==
    \E via \in {"array", "variant"} :
        LET r == RstarTree(arr, via)
        IN  /\ pc = "ready"
            /\ via = "variant" => arr.kind = "MultiPoint"
            /\ \E out \in UbOutcomes(r) :
                 op' = [name |-> "rstar_tree", via |-> via, result |-> out]
            /\ UNCHANGED <<pc, build, arr, trail>>

\* arr.into_arrow(): the array is consumed, the caller holds the list array.
IntoArrowCall ==
    LET r == IntoArrow(arr)
    IN  /\ pc = "ready"
        /\ \E out \in UbOutcomes(r) :
             /\ op' = [name |-> "into_arrow", origin |-> arr, result |-> out.tag]
             /\ arr' = IF out.tag = "ok"
                       THEN [kind |-> "Arrow", of |-> arr.kind,
                             value |-> out.val, origin |-> arr]
                       ELSE arr
             /\ pc' = IF out.tag = "ok" THEN "exported" ELSE "panicked"
        /\ UNCHANGED <<build, trail>>

\* MultiPointArray::try_from(list) / MultiPolygonArray::try_from(list) on the
\* exported list array.
TryFromCall ==
    LET r == IF arr.of = "MultiPoint" THEN MPTryFrom(arr.value)
             ELSE MPolyTryFrom(arr.value)
    IN  /\ pc = "exported"
        /\ op' = [name |-> "try_from", origin |-> arr.origin, result |-> r.tag]
        /\ arr' = IF r.tag = "ok" THEN r.val ELSE arr
        /\ pc' = IF r.tag = "ok" THEN "ready" ELSE "panicked"
        /\ UNCHANGED <<build, trail>>

\* One slice per array here: slices of slices are explored by Spec.
SliceOnce == trail = <<>> /\ (SliceMultiPoint \/ SliceMultiPolygon)

GeomNext ==
    \/ NewMultiPoint
    \/ NewMultiPolygon
    \/ SliceOnce
    \/ ProcessGeomCall
    \/ RstarTreeCall
    \/ IntoArrowCall
    \/ TryFromCall

GeomSpec == Init /\ [][GeomNext]_vars

\* C12: an array exported with into_arrow and imported again with try_from
\* is structurally equal to the original (same len, same validity, same
\* elements), for arrays that were sliced too; so the export succeeds and the
\* import succeeds.
ColumnarRoundTrip ==
    /\ op.name = "into_arrow" => op.result = "ok"
    /\ op.name = "try_from" => op.result = "ok" /\ StructEq(arr, op.origin)

\* The same for MultiPointArray alone.
ColumnarRoundTripMultiPoint ==
    /\ op.name = "into_arrow" /\ op.origin.kind = "MultiPoint"
          => op.result = "ok"
    /\ op.name = "try_from" /\ op.origin.kind = "MultiPoint"
          => op.result = "ok" /\ StructEq(arr, op.origin)

\* The same for a MultiPolygonArray that was never sliced.
ColumnarRoundTripUnsliced ==
    trail = <<>> => ColumnarRoundTrip

\* ======================================================= import and sniffing
MaxDepth == 4

ListTypes == {"List", "LargeList"}

\* Foreign leaves: a coordinate struct of k points, a struct with one field,
\* a struct whose second field is not f64, a bare f64 array, binary arrays.
StructXY(k) ==
    [type |-> "Struct",
     fields |-> <<PrimitiveArray(Buf(CoordsX(k))), PrimitiveArray(Buf(CoordsY(k)))>>]
StructX(k) ==
    [type |-> "Struct", fields |-> <<PrimitiveArray(Buf(CoordsX(k)))>>]
StructXInt(k) ==
    [type |-> "Struct",
     fields |-> <<PrimitiveArray(Buf(CoordsX(k))),
                  [type |-> "Int32", values |-> Buf(CoordsY(k))]>>]
BinaryArray(type) == [type |-> type, values |-> Buf(<<>>)]

ForeignLeaves ==
    {StructXY(k) : k \in 0..1} \cup {StructX(1), StructXInt(1)}
    \cup {PrimitiveArray(Buf(<<>>))}
    \cup {BinaryArray("LargeBinary"), BinaryArray("Binary")}

\* A list array over child: 64-bit or 32-bit offsets, no list or one list
\* holding the whole child.
ListsOver(child) ==
    {[type |-> t, offsets |-> Buf(offs), values |-> child,
      validity |-> NoValidity] :
        t \in ListTypes,
        offs \in {<<0>>} \cup (IF ArrowLen(child) >= 1
                               THEN {<<0, ArrowLen(child)>>} ELSE {})}

RECURSIVE ForeignOfDepth(_)
ForeignOfDepth(d) ==
    IF d = 0 THEN ForeignLeaves
    ELSE UNION {ListsOver(child) : child \in ForeignOfDepth(d - 1)}

ForeignArrays == UNION {ForeignOfDepth(d) : d \in 0..MaxDepth}

\* The declared nesting shape of an array: its data type without the data.
RECURSIVE Shape(_)
Shape(v) ==
    IF v.type \in ListTypes THEN <<"list">> \o Shape(v.values)
    ELSE IF v.type = "Struct" THEN <<"struct">>
    ELSE IF v.type = "LargeBinary" THEN <<"binary">>
    ELSE <<"other">>

\* The layout an import of nesting depth d expects: d 64-bit-offset lists
\* over a struct of two f64 fields.
RECURSIVE LayoutMatches(_, _)
LayoutMatches(v, d) ==
    IF d = 0
    THEN /\ v.type = "Struct"
         /\ Len(v.fields) = 2
         /\ \A k \in 1..2 : v.fields[k].type = "Float64"
    ELSE v.type = "LargeList" /\ LayoutMatches(v.values, d - 1)

ErrIncompatibleLayout == [tag |-> "err", msg |-> "IncompatibleLayout"]

\* try_from of the arrays whose import is not among the sources (Point,
\* LineString, Polygon, MultiLineString and the enum's MultiPolygon): the
\* imported layout, or an IncompatibleLayout error.
CheckedImport(v, d) ==
    IF LayoutMatches(v, d) THEN Val(v) ELSE ErrIncompatibleLayout

\* Result::unwrap
Unwrap(r) == IF r.tag = "ok" THEN r ELSE Panic

\* GeometryArray::<tag>(imported)
Variant(tag, imported) ==
    IF imported.tag = "ok" THEN Val([tag |-> tag, array |-> imported.val])
    ELSE imported

\* downcast_ref::<ListArray<i64>>().unwrap(), then try_into().unwrap()
DowncastList(v, tag, d) ==
    IF v.type # "LargeList" THEN Panic
    ELSE IF tag = "MultiPoint" THEN Variant(tag, Unwrap(MPTryFromList(v)))
    ELSE Variant(tag, Unwrap(CheckedImport(v, d)))

\* match arr.data_type() { .. }
MatchDataType(array, is_multi) ==
    IF array.type = "LargeBinary" THEN Val([tag |-> "WKB", array |-> array])
    ELSE IF array.type = "Struct"
    THEN Variant("Point", Unwrap(CheckedImport(array, 0)))
    ELSE IF array.type \in ListTypes
    THEN LET dt == array.values
         IN  IF dt.type = "Struct"
             THEN IF is_multi THEN DowncastList(array, "MultiPoint", 1)
                  ELSE DowncastList(array, "LineString", 1)
             ELSE IF dt.type \in ListTypes
             THEN LET dt2 == dt.values
                  IN  IF dt2.type = "Struct"
                      THEN IF is_multi
                           THEN DowncastList(array, "MultiLineString", 2)
                           ELSE DowncastList(array, "Polygon", 2)
                      ELSE IF dt2.type \in ListTypes
                      THEN DowncastList(array, "MultiPolygon", 3)
                      ELSE Panic
             ELSE Panic
    ELSE Panic

\* Mutant of FromArrow: a list that holds no geometry is taken for the
\* single-geometry variant whatever the flag says.
FromArrowByData(array, is_multi) ==
    MatchDataType(array, is_multi /\ (array.type \in ListTypes => ArrowLen(array) > 0))

\* GeometryArray::from_arrow(arr, is_multi)
FromArrow(array, is_multi) == MatchDataType(array, is_multi)

ForeignInit ==
    /\ pc = "foreign"
    /\ build \in {"debug", "release"}
    /\ arr \in {[kind |-> "Foreign", value |-> v] : v \in ForeignArrays}
    /\ op = [name |-> "none"]
    /\ trail = <<>>

\* MultiPointArray::try_from(arr.clone())
ImportMultiPoint ==
    LET r == MPTryFrom(arr.value)
    IN  /\ pc = "foreign"
        /\ op' = [name |-> "try_from", target |-> "MultiPoint", depth |-> 1,
                  result |-> r.tag]
        /\ UNCHANGED <<pc, build, arr, trail>>

\* MultiPolygonArray::try_from(arr.clone())
ImportMultiPolygon ==
    LET r == MPolyTryFrom(arr.value)
    IN  /\ pc = "foreign"
        /\ op' = [name |-> "try_from", target |-> "MultiPolygon", depth |-> 3,
                  result |-> r.tag]
        /\ UNCHANGED <<pc, build, arr, trail>>

\* GeometryArray::from_arrow(&arr, is_multi)
FromArrowCall ==
    \E is_multi \in BOOLEAN :
        LET r == FromArrow(arr.value, is_multi)
        IN  /\ pc = "foreign"
            /\ op' = [name |-> "from_arrow", is_multi |-> is_multi,
                      result |-> r.tag,
                      variant |-> IF r.tag = "ok" THEN Some(r.val.tag) ELSE None]
            /\ UNCHANGED <<pc, build, arr, trail>>

ImportNext == ImportMultiPoint \/ ImportMultiPolygon \/ FromArrowCall

ImportSpec == ForeignInit /\ [][ImportNext]_vars

\* The depth from_arrow's selected variant expects, if the shape selects one.
SniffedDepth(shape) ==
    IF shape = <<"struct">> THEN Some(0)
    ELSE IF shape = <<"list", "struct">> THEN Some(1)
    ELSE IF shape = <<"list", "list", "struct">> THEN Some(2)
    ELSE IF Len(shape) >= 3 /\ \A k \in 1..3 : shape[k] = "list" THEN Some(3)
    ELSE None

\* C13: an import of a foreign value whose representation does not match the
\* expected layout (wrong depth, a level that is not a 64-bit-offset list, a
\* leaf that is not a two-field f64 struct, an unknown data type) returns an
\* error; it does not panic and yields no array.
ImportMismatchReturnsError ==
    /\ op.name = "try_from" /\ ~LayoutMatches(arr.value, op.depth)
          => op.result = "err"
    /\ op.name = "from_arrow"
          => LET d == SniffedDepth(Shape(arr.value))
             IN  IF Shape(arr.value) = <<"binary">> THEN op.result = "ok"
                 ELSE IF d = None THEN op.result = "err"
                 ELSE ~LayoutMatches(arr.value, d.val) => op.result = "err"

\* What does hold: a mismatching import never yields an array.
ImportMismatchYieldsNoArray ==
    /\ op.name = "try_from" /\ ~LayoutMatches(arr.value, op.depth)
          => op.result # "ok"
    /\ op.name = "from_arrow" /\ Shape(arr.value) # <<"binary">>
          => LET d == SniffedDepth(Shape(arr.value))
             IN  (d = None \/ ~LayoutMatches(arr.value, d.val))
                    => op.result # "ok"

\* The tag the declared shape and the flag select.
SniffTable(shape, is_multi) ==
    IF shape = <<"binary">> THEN "WKB"
    ELSE IF shape = <<"struct">> THEN "Point"
    ELSE IF shape = <<"list", "struct">>
    THEN IF is_multi THEN "MultiPoint" ELSE "LineString"
    ELSE IF shape = <<"list", "list", "struct">>
    THEN IF is_multi THEN "MultiLineString" ELSE "Polygon"
    ELSE IF Len(shape) >= 3 /\ \A k \in 1..3 : shape[k] = "list"
    THEN "MultiPolygon"
    ELSE "none"

\* C14: whenever from_arrow returns a variant, its tag is the one the declared
\* nesting shape and is_multi select (binary: WKB; struct: Point; list of
\* struct: MultiPoint or LineString; list of list of struct: MultiLineString
\* or Polygon; list of list of list: MultiPolygon); the tag is a function of
\* shape and flag, so equal shape and flag give equal tags.
SniffByShapeAndFlag ==
    op.name = "from_arrow" /\ op.result = "ok"
        => op.variant = Some(SniffTable(Shape(arr.value), op.is_multi))

\* from_arrow returned MultiPoint for a list that holds no geometry: the
\* data did not decide.
SniffByShapeAndFlagWitness ==
    /\ op.name = "from_arrow"
    /\ op.variant = Some("MultiPoint")
    /\ ArrowLen(arr.value) = 0

\* ================================================== claims on process_geom
\* The event protocol: which event opens or closes which block, and the block
\* each kind of child belongs to.
BeginKind ==
    [geometrycollection_begin |-> "geometrycollection",
     multipoint_begin |-> "multipoint", multipolygon_begin |-> "multipolygon",
     polygon_begin |-> "polygon", linestring_begin |-> "linestring"]
EndKind ==
    [geometrycollection_end |-> "geometrycollection",
     multipoint_end |-> "multipoint", multipolygon_end |-> "multipolygon",
     polygon_end |-> "polygon", linestring_end |-> "linestring"]
ParentKinds ==
    [multipoint |-> {"geometrycollection"},
     multipolygon |-> {"geometrycollection"},
     polygon |-> {"multipolygon"}, linestring |-> {"polygon"},
     xy |-> {"multipoint", "linestring"}]

\* A child may appear here: inside a block of the right kind, at the position
\* its index argument names.
ChildFits(stack, kind, idx) ==
    /\ stack # <<>>
    /\ stack[Len(stack)].kind \in ParentKinds[kind]
    /\ idx = stack[Len(stack)].count

\* The open blocks after one more child of the innermost one was seen.
CountChild(stack) ==
    [stack EXCEPT ![Len(stack)].count = stack[Len(stack)].count + 1]

RECURSIVE WellNestedFrom(_, _, _)
\* The events from position k on close every open block of stack in order and
\* leave none open; stack holds, innermost last, the kind, the announced size
\* and the number of children seen so far of every open block.
WellNestedFrom(evs, k, stack) ==
    IF k > Len(evs) THEN stack = <<>>
    ELSE LET e == evs[k]
         IN  IF e.ev = "geometrycollection_begin"
             THEN /\ k = 1
                  /\ e.size.tag = "ok"
                  /\ WellNestedFrom(evs, k + 1,
                        <<[kind |-> "geometrycollection", size |-> e.size.val,
                           count |-> 0]>>)
             ELSE IF e.ev \in DOMAIN BeginKind
             THEN /\ ChildFits(stack, BeginKind[e.ev], e.idx)
                  /\ WellNestedFrom(evs, k + 1,
                        Append(CountChild(stack),
                               [kind |-> BeginKind[e.ev], size |-> e.size,
                                count |-> 0]))
             ELSE IF e.ev \in DOMAIN EndKind
             THEN /\ stack # <<>>
                  /\ stack[Len(stack)].kind = EndKind[e.ev]
                  /\ stack[Len(stack)].count = stack[Len(stack)].size
                  /\ e.ev = "geometrycollection_end" => k = Len(evs)
                  /\ WellNestedFrom(evs, k + 1, SubSeq(stack, 1, Len(stack) - 1))
             ELSE /\ e.ev = "xy"
                  /\ ChildFits(stack, "xy", e.idx)
                  /\ WellNestedFrom(evs, k + 1, CountChild(stack))

WellNested(evs) == evs # <<>> /\ WellNestedFrom(evs, 1, <<>>)

\* A call of process_geom with a processor that never fails.
Processed == op.name = "process_geom" /\ op.fail_at = 0

\* C15: process_geom emits a well-nested event sequence: one collection_begin(n)
\* first with n = len(), a multi_begin .. multi_end pair per geometry in
\* index order, polygon and linestring pairs nested inside for a
\* MultiPolygonArray, xy events innermost, one collection_end last; every
\* begin is closed before its parent ends, announces the number of its
\* children, and every child's index is its position within its parent.
WellNestedEvents ==
    Processed =>
        /\ op.status = "ok"
        /\ WellNested(op.events)
        /\ op.events[1].size = ArrLen(arr)

\* The same for arrays that were not sliced and hold at least one geometry.
WellNestedEventsNonEmptyUnsliced ==
    Processed /\ trail = <<>> /\ ArrLen(arr) # Val(0) => WellNestedEvents

\* The same for a MultiPointArray that holds at least one geometry.
WellNestedEventsNonEmptyMultiPoint ==
    Processed /\ arr.kind = "MultiPoint" /\ ArrLen(arr) # Val(0)
        => WellNestedEvents

\* The positions strictly between lo and hi whose event is named name.
EventsNamed(evs, lo, hi, name) ==
    SelectSeq([k \in 1..(hi - lo - 1) |-> lo + k], LAMBDA i : evs[i].ev = name)

\* The position of the first event named name after position k (one past the
\* last event if there is none).
FirstAfter(evs, k, name) ==
    LET later == {j \in (k + 1)..Len(evs) : evs[j].ev = name}
    IN  IF later = {} THEN Len(evs) + 1 ELSE Min(later)

\* The (x, y) pairs emitted strictly between positions lo and hi.
EmittedCoords(evs, lo, hi) ==
    LET at == EventsNamed(evs, lo, hi, "xy")
    IN  [k \in 1..Len(at) |-> <<evs[at[k]].x, evs[at[k]].y>>]

\* The rings emitted between lo and hi, each the pairs between a
\* linestring_begin and its linestring_end.
EmittedRings(evs, lo, hi) ==
    LET at == EventsNamed(evs, lo, hi, "linestring_begin")
    IN  [k \in 1..Len(at) |->
            EmittedCoords(evs, at[k], FirstAfter(evs, at[k], "linestring_end"))]

\* The polygons emitted between lo and hi, each the rings between a
\* polygon_begin and its polygon_end.
EmittedPolygons(evs, lo, hi) ==
    LET at == EventsNamed(evs, lo, hi, "polygon_begin")
    IN  [k \in 1..Len(at) |->
            EmittedRings(evs, at[k], FirstAfter(evs, at[k], "polygon_end"))]

\* What the events between the g-th multi_begin and its multi_end
\* reconstruct, grouped by part and ring; None if there is no such block.
EmittedGeometry(evs, kind, g) ==
    LET begin == IF kind = "MultiPoint" THEN "multipoint_begin"
                 ELSE "multipolygon_begin"
        end == IF kind = "MultiPoint" THEN "multipoint_end"
               ELSE "multipolygon_end"
        at == EventsNamed(evs, 0, Len(evs) + 1, begin)
    IN  IF g + 1 > Len(at) THEN None
        ELSE LET lo == at[g + 1]
                 hi == FirstAfter(evs, lo, end)
             IN  IF hi > Len(evs) THEN None
                 ELSE IF kind = "MultiPoint"
                 THEN Some(EmittedCoords(evs, lo, hi))
                 ELSE Some(EmittedPolygons(evs, lo, hi))

\* value(g) converted to a geo value, as an optional.
Traversed(a, g) ==
    LET v == ValueAsGeo(a, g) IN IF v.tag = "ok" THEN Some(v.val) ELSE None

\* C16: for every array, sliced or not, and every index g < len(), the pairs
\* process_geom emits between the g-th multi_begin and its multi_end, grouped
\* by part and ring, are the coordinates of value(g) converted to a geo
\* value, in the same order and grouping.
ProcessorGeoEquivalence ==
    Processed =>
        \A g \in 0..(MaxGeoms - 1) :
            UsizeLt(g, ArrLen(arr)) =>
                /\ Traversed(arr, g) # None
                /\ EmittedGeometry(op.events, arr.kind, g) = Traversed(arr, g)

ProcessorGeoEquivalenceUnsliced ==
    trail = <<>> \/ arr.kind = "MultiPoint" => ProcessorGeoEquivalence

NonNullIndices(a) ==
    {i \in 0..(ArrLen(a).val - 1) : ~IsNull(a, i)}

\* The number of unset validity bits.
NullCount(a) == IF a.validity.present THEN UnsetBits(a.validity) ELSE 0

\* C17: the index built by rstar_tree holds exactly one entry per non-null
\* element and none for a null element: its size is len() minus the number
\* of unset validity bits and its entries are the scalar views of distinct
\* non-null indices.
IndexSoundness ==
    op.name = "rstar_tree" =>
        /\ op.result.tag = "ok"
        /\ ArrLen(arr).tag = "ok"
        /\ Len(op.result.val) = ArrLen(arr).val - NullCount(arr)
        /\ {op.result.val[k] : k \in 1..Len(op.result.val)} = NonNullIndices(arr)
        /\ \A j, k \in 1..Len(op.result.val) :
              op.result.val[j] = op.result.val[k] => j = k

\* The same for MultiPointArray, its GeometryArray variant, and a
\* MultiPolygonArray that was not sliced.
IndexSoundnessUnsliced ==
    trail = <<>> \/ arr.kind = "MultiPoint" => IndexSoundness

\* ============================================== claims on in-place mutation
\* The allocations behind two arrays hold the same cells.
SameAllocations(a, b) ==
    /\ a.x.data = b.x.data
    /\ a.y.data = b.y.data
    /\ a.geom_offsets.data = b.geom_offsets.data
    /\ a.validity.present /\ b.validity.present
          => a.validity.data = b.validity.data
    /\ a.kind = "MultiPolygon"
          => /\ a.polygon_offsets.data = b.polygon_offsets.data
             /\ a.ring_offsets.data = b.ring_offsets.data

\* C18: no operation alters the array it is invoked on: after a slice the
\* receiver has the len(), validity and elements it had before, the slice
\* being a separate array.
NoInPlaceMutation ==
    op.name = "slice" => StructEq(op.receiver, op.before)

\* What does hold: a slice never writes to a shared allocation and a failed
\* slice leaves its receiver as it was; MultiPolygonArray::slice returns a
\* separate array and leaves its receiver unchanged, MultiPointArray::slice
\* re-windows the geometry offsets and the mask of its receiver and leaves
\* the coordinate buffers alone.
SliceKeepsSharedBuffers ==
    /\ SlicePanicked => op.receiver = op.before
    /\ SliceOk =>
          /\ SameAllocations(op.receiver, op.before)
          /\ SameAllocations(arr, op.before)
          /\ op.before.kind = "MultiPolygon" => op.receiver = op.before
          /\ op.before.kind = "MultiPoint"
                => /\ op.receiver.x = op.before.x
                   /\ op.receiver.y = op.before.y

\* ==================================================== LineString scalar view
\* struct LineString<'a>: borrowed x, y and geom_offsets, and the index of
\* the geometry.
LineString(x, y, geom_offsets, geom_index) ==
    [kind |-> "LineString", x |-> x, y |-> y, geom_offsets |-> geom_offsets,
     geom_index |-> geom_index]

\* struct Point<'a>: borrowed x and y, and the index of the coordinate.
Point(x, y, geom_index) == [x |-> x, y |-> y, geom_index |-> geom_index]

\* LineString::num_points
NumPoints(ls) ==
    LET se == StartEnd(ls.geom_offsets, ls.geom_index)
    IN  IF se.tag # "ok" THEN se ELSE Val(se.e - se.s)

\* LineString::point(i)
PointAt(ls, i) ==
    LET se == StartEnd(ls.geom_offsets, ls.geom_index)
    IN  IF se.tag # "ok" THEN se
        ELSE IF i > se.e - se.s THEN Val(None)
        ELSE Val(Some(Point(ls.x, ls.y, se.s + i)))

\* The scalar views of the line strings of an array: geom_index < len(),
\* offsets within the coordinate buffers.
LineStrings ==
    {LineString(Buf(CoordsX(MaxCoords)), Buf(CoordsY(MaxCoords)), Buf(offs), g) :
        offs \in {o \in OffsetInputs : Len(o) >= 2},
        g \in 0..(MaxGeoms - 1)}

LineInit ==
    /\ pc = "scalar"
    /\ build \in {"debug", "release"}
    /\ arr \in {ls \in LineStrings : ls.geom_index < ls.geom_offsets.len - 1}
    /\ op = [name |-> "none"]
    /\ trail = <<>>

\* ls.num_points()
NumPointsCall ==
    /\ pc = "scalar"
    /\ op' = [name |-> "num_points", result |-> NumPoints(arr)]
    /\ UNCHANGED <<pc, build, arr, trail>>

\* ls.point(i)
PointCall ==
    \E i \in 0..(MaxCoords + 1) :
        /\ pc = "scalar"
        /\ op' = [name |-> "point", i |-> i, result |-> PointAt(arr, i)]
        /\ UNCHANGED <<pc, build, arr, trail>>

LineNext == NumPointsCall \/ PointCall

LineSpec == LineInit /\ [][LineNext]_vars

\* C19: point(i) is None whenever i >= num_points(), and for i < num_points()
\* it is the point at coordinate index start + i, where [start, end) is the
\* offset range of the geometry and num_points() = end - start.
PointInBoundsOrNone ==
    /\ op.name = "num_points"
          => op.result = Val(arr.geom_offsets.data[arr.geom_index + 2]
                             - arr.geom_offsets.data[arr.geom_index + 1])
    /\ op.name = "point"
          => LET start == arr.geom_offsets.data[arr.geom_index + 1]
                 n == NumPoints(arr).val
             IN  op.result = IF op.i >= n THEN Val(None)
                             ELSE Val(Some(Point(arr.x, arr.y, start + op.i)))

\* The same for every index but i = num_points().
PointInBoundsOrNoneButAtEnd ==
    (op.name = "point" /\ op.i = NumPoints(arr).val) \/ PointInBoundsOrNone

\* ========================================= claims on processor failures
\* C20: when the processor fails on an event, process_geom returns that
\* error at once: the failing call is the last one made (no later begin, xy
\* or end), it is made once, and the calls before it are those of the walk
\* with a processor that never fails.
ProcessorErrorSurfaced ==
    op.name = "process_geom" /\ op.fail_at >= 1 =>
        LET unfailing == ProcessGeom(arr, 0)
        IN  IF Len(unfailing.events) >= op.fail_at
            THEN /\ op.status = "err"
                 /\ Len(op.events) = op.fail_at
                 /\ op.events = SubSeq(unfailing.events, 1, op.fail_at)
            ELSE /\ op.status # "err"
                 /\ op.events = unfailing.events

\* The processor failed on a coordinate in the middle of a walk.
ProcessorErrorSurfacedWitness ==
    /\ op.name = "process_geom"
    /\ op.status = "err"
    /\ op.events[Len(op.events)].ev = "xy"
    /\ op.fail_at + 3 <= Len(ProcessGeom(arr, 0).events)

\* ================================== claims on the index arithmetic of the walk
\* The unsigned number an event carries did not go below zero or wrap: the
\* size of a begin and the index of every event.
EventInRange(e) ==
    /\ e.ev = "geometrycollection_begin" => e.size.tag = "ok" /\ e.idx >= 0
    /\ e.ev = "geometrycollection_end" => e.idx.tag = "ok"
    /\ e.ev \notin {"geometrycollection_begin", "geometrycollection_end"}
          => /\ e.idx >= 0
             /\ e.ev \in DOMAIN BeginKind => e.size >= 0

\* C21: for every array length n >= 0, the empty array included, process_geom
\* with a processor that never fails returns Ok, and none of its unsigned
\* index computations (the collection_end index n - 1, the counts
\* end - start, the relative indices idx - start) goes below zero or wraps.
WalkCompletesWithoutUnderflow ==
    Processed =>
        /\ op.status = "ok"
        /\ \A k \in 1..Len(op.events) : EventInRange(op.events[k])

\* The same for arrays that hold at least one geometry and were not sliced,
\* and for every MultiPointArray that holds at least one geometry.
WalkCompletesWithoutUnderflowNonEmpty ==
    /\ Processed
    /\ ArrLen(arr) # Val(0)
    /\ trail = <<>> \/ arr.kind = "MultiPoint"
    => WalkCompletesWithoutUnderflow

\* In a release build the walk over an unsliced empty array returns Ok, with
\* a wrapped collection_end index.
EmptyWalkWrapsInRelease ==
    /\ Processed
    /\ ArrLen(arr) = Val(0)
    /\ trail = <<>>
    => IF build = "debug"
       THEN op.status = "panic" /\ Len(op.events) = 1
       ELSE /\ op.status = "ok"
            /\ op.events[Len(op.events)] =
                  [ev |-> "geometrycollection_end", idx |-> Wrapped]

\* ======================================== impl GeometryArray for MultiPolygonArray
\* enum GeometryType: the closed set of kinds.
GeometryTypes ==
    {"Point", "LineString", "Polygon", "MultiPoint", "MultiLineString",
     "MultiPolygon", "WKB"}

\* <MultiPolygonArray as GeometryArray>::geometry_type
GeometryTypeOf(a) == "WKB"

\* <MultiPolygonArray as GeometryArray>::to_boxed: Box::new(self.clone())
ToBoxed(a) == a

\* boxed = arr.slice(offset, length) through the trait object, once per array.
DynSlice == trail = <<>> /\ SliceMultiPolygon

\* boxed = arr.to_boxed(): the caller goes on with the boxed clone.
ToBoxedCall ==
    /\ pc = "ready"
    /\ op' = [name |-> "to_boxed", before |-> arr]
    /\ arr' = ToBoxed(arr)
    /\ UNCHANGED <<pc, build, trail>>

\* arr.geometry_type(); tagged with whether the array came out of slice or
\* to_boxed just before.
GeometryTypeCall ==
    /\ pc = "ready"
    /\ op' = [name |-> "geometry_type", after |-> op.name,
              result |-> GeometryTypeOf(arr)]
    /\ UNCHANGED <<pc, build, arr, trail>>

DynNext == NewMultiPolygon \/ DynSlice \/ ToBoxedCall \/ GeometryTypeCall

DynSpec == Init /\ [][DynNext]_vars

\* C22: geometry_type() of a MultiPolygonArray reports the MultiPolygon kind,
\* never the tag of another kind such as WKB, and reports it after slice and
\* to_boxed as well.
GeometryTypeIsOwnKind ==
    op.name = "geometry_type" => op.result = "MultiPolygon"

\* What does hold: the reported tag is one of the closed set and is the same
\* before and after slice and to_boxed.
GeometryTypeStable ==
    op.name = "geometry_type" =>
        /\ op.result \in GeometryTypes
        /\ \A k \in 1..Len(trail) : op.result = GeometryTypeOf(trail[k].before)
        /\ op.result = GeometryTypeOf(ToBoxed(arr))

====
